---- MODULE Spec2Model ----
\* Verification model of the bot-detection decision service (src/main.py):
\* the /ai-decision handler, its request schema and the ISP classification
\* step research_isp_with_llm with its regular-expression tag extraction.
\* Python strings that the code inspects character by character (the
\* user-agent and the language model's reply) are sequences of one-character
\* strings; strings the code only compares or tests for emptiness are TLA+
\* strings.
EXTENDS Integers, Sequences, FiniteSets, TLC

----------------------------------------------------------------------------
\* Character helpers (str.lower, re.IGNORECASE, \s, [a-z])

LowerCase ==
    {"a", "b", "c", "d", "e", "f", "g", "h", "i", "j", "k", "l", "m",
     "n", "o", "p", "q", "r", "s", "t", "u", "v", "w", "x", "y", "z"}

\* str.lower() on one character.
ToLower(c) ==
    CASE c = "A" -> "a" [] c = "B" -> "b" [] c = "C" -> "c" [] c = "D" -> "d"
      [] c = "E" -> "e" [] c = "F" -> "f" [] c = "G" -> "g" [] c = "H" -> "h"
      [] c = "I" -> "i" [] c = "J" -> "j" [] c = "K" -> "k" [] c = "L" -> "l"
      [] c = "M" -> "m" [] c = "N" -> "n" [] c = "O" -> "o" [] c = "P" -> "p"
      [] c = "Q" -> "q" [] c = "R" -> "r" [] c = "S" -> "s" [] c = "T" -> "t"
      [] c = "U" -> "u" [] c = "V" -> "v" [] c = "W" -> "w" [] c = "X" -> "x"
      [] c = "Y" -> "y" [] c = "Z" -> "z"
      [] OTHER -> c

\* str.lower() on a string.
Lower(s) == [i \in 1..Len(s) |-> ToLower(s[i])]

\* [a-z] under re.IGNORECASE.
IsLetter(c) == ToLower(c) \in LowerCase

\* \s of the re module.
IsSpace(c) == c \in {" ", "\t", "\n", "\r", "\f"}

\* Python's `kw in s` for strings.
Contains(s, kw) ==
    \E i \in 1..(Len(s) - Len(kw) + 1) :
        \A k \in 1..Len(kw) : s[i + k - 1] = kw[k]

\* The Python string made of the characters of s.
RECURSIVE Str(_)
Str(s) == IF s = <<>> THEN "" ELSE Head(s) \o Str(Tail(s))

----------------------------------------------------------------------------
\* Request inputs

\* "Mozilla/5.0 (Windows NT 10.0; Win64; x64) AppleWebKit/537.36": a desktop browser's user-agent, 60 characters
ChromeUA ==
    <<"M","o","z","i","l","l","a","/","5",".","0"," ","(","W","i","n","d","o","w","s"," ","N","T"," ","1","0",".","0",";"," ","W","i","n","6","4",";"," ","x","6","4",")"," ","A","p","p","l","e","W","e","b","K","i","t","/","5","3","7",".","3","6">>
\* "Mozilla/5.0 (X11; Linux x86_64) HeadlessChrome/120.0": a long user-agent with a bot keyword in mixed case
HeadlessUA ==
    <<"M","o","z","i","l","l","a","/","5",".","0"," ","(","X","1","1",";"," ","L","i","n","u","x"," ","x","8","6","_","6","4",")"," ","H","e","a","d","l","e","s","s","C","h","r","o","m","e","/","1","2","0",".","0">>
\* "Mozilla/5.0 (X11) A": 19 characters, no bot keyword
UA19 ==
    <<"M","o","z","i","l","l","a","/","5",".","0"," ","(","X","1","1",")"," ","A">>
\* "Mozilla/5.0 (X11) AB": 20 characters, no bot keyword
UA20 ==
    <<"M","o","z","i","l","l","a","/","5",".","0"," ","(","X","1","1",")"," ","A","B">>

\* An optional value: <<>> is "no value" (an absent body field, Python's
\* None), <<v>> is the value v.
NoValue == <<>>
Some(v) == <<v>>

\* The values a body gives each field: a value of the declared type, or
\* nothing (the field is left out and takes its default). honeypotVisited is
\* a field clients send that the schema does not declare.
UAValues == { NoValue, Some(ChromeUA), Some(HeadlessUA), Some(UA19), Some(UA20) }
OptBool == { NoValue, Some(TRUE), Some(FALSE) }
FlagValues == { NoValue, Some(TRUE) }
ScreenResValues == { NoValue, Some("1920x1080"), Some("0x0"), Some("1x1") }
LangValues == { NoValue, Some("en-US"), Some("ru-RU") }
TimezoneValues == { NoValue, Some("America/New_York") }
IspValues == { NoValue, Some(""), Some("Comcast Cable") }
HoneypotValues == { NoValue, Some(TRUE) }

\* The JSON bodies posted to /ai-decision.
Bodies ==
    [ ua : UAValues,
      supportsCookies : OptBool,
      jsEnabled : OptBool,
      screenRes : ScreenResValues,
      lang : LangValues,
      timezone : TimezoneValues,
      isp : IspValues,
      isBotUserAgent : FlagValues,
      isScraperISP : FlagValues,
      isIPAbuser : FlagValues,
      isSuspiciousTraffic : FlagValues,
      isDataCenterASN : FlagValues,
      honeypotVisited : HoneypotValues ]

\* The body before any request has arrived.
EmptyBody ==
    [ ua |-> NoValue, supportsCookies |-> NoValue, jsEnabled |-> NoValue,
      screenRes |-> NoValue, lang |-> NoValue, timezone |-> NoValue,
      isp |-> NoValue, isBotUserAgent |-> NoValue, isScraperISP |-> NoValue,
      isIPAbuser |-> NoValue, isSuspiciousTraffic |-> NoValue,
      isDataCenterASN |-> NoValue, honeypotVisited |-> NoValue ]

\* A field of the schema: the body's value, or the declared default.
FieldOr(f, default) == IF f = NoValue THEN default ELSE f[1]

\* class AICheckRequest: the declared fields with their defaults. A body
\* field the class does not declare is dropped by the validation. The two
\* Optional[bool] fields default to None and stay optional values.
AICheckRequest(b) ==
    [ ua |-> FieldOr(b.ua, <<>>),
      supportsCookies |-> b.supportsCookies,
      jsEnabled |-> b.jsEnabled,
      screenRes |-> FieldOr(b.screenRes, ""),
      lang |-> FieldOr(b.lang, ""),
      timezone |-> FieldOr(b.timezone, ""),
      isp |-> FieldOr(b.isp, ""),
      isBotUserAgent |-> FieldOr(b.isBotUserAgent, FALSE),
      isScraperISP |-> FieldOr(b.isScraperISP, FALSE),
      isIPAbuser |-> FieldOr(b.isIPAbuser, FALSE),
      isSuspiciousTraffic |-> FieldOr(b.isSuspiciousTraffic, FALSE),
      isDataCenterASN |-> FieldOr(b.isDataCenterASN, FALSE) ]

\* Python truthiness of an Optional[bool].
Truthy(o) == o # NoValue /\ o[1]

----------------------------------------------------------------------------
\* Replies of the hosted language model

\* "Conclusion: [residential]"
TxtResidential ==
    <<"C","o","n","c","l","u","s","i","o","n",":"," ","[","r","e","s","i","d","e","n","t","i","a","l","]">>
\* "Conclusion: [microsoft]"
TxtMicrosoft ==
    <<"C","o","n","c","l","u","s","i","o","n",":"," ","[","m","i","c","r","o","s","o","f","t","]">>
\* "Conclusion: [security]"
TxtSecurity ==
    <<"C","o","n","c","l","u","s","i","o","n",":"," ","[","s","e","c","u","r","i","t","y","]">>
\* "CONCLUSION:  [Cloud]"
TxtCloudUpper ==
    <<"C","O","N","C","L","U","S","I","O","N",":"," "," ","[","C","l","o","u","d","]">>
\* "Conclusion: [vpn]"
TxtVpn ==
    <<"C","o","n","c","l","u","s","i","o","n",":"," ","[","v","p","n","]">>
\* "Conclusion: [scraper]"
TxtScraper ==
    <<"C","o","n","c","l","u","s","i","o","n",":"," ","[","s","c","r","a","p","e","r","]">>
\* "Conclusion: [proxy]"
TxtProxy ==
    <<"C","o","n","c","l","u","s","i","o","n",":"," ","[","p","r","o","x","y","]">>
\* "Conclusion: [unknown]"
TxtUnknown ==
    <<"C","o","n","c","l","u","s","i","o","n",":"," ","[","u","n","k","n","o","w","n","]">>
\* "Conclusion: [vpn] Conclusion: [cloud]"
TxtTwoTags ==
    <<"C","o","n","c","l","u","s","i","o","n",":"," ","[","v","p","n","]"," ","C","o","n","c","l","u","s","i","o","n",":"," ","[","c","l","o","u","d","]">>
\* "mentions [unsafe] earlier but concludes [safe]"
TxtBareTags ==
    <<"m","e","n","t","i","o","n","s"," ","[","u","n","s","a","f","e","]"," ","e","a","r","l","i","e","r"," ","b","u","t"," ","c","o","n","c","l","u","d","e","s"," ","[","s","a","f","e","]">>
\* "Sells to Consumer. Conclusion: [vpn]"
TxtConsumerVpn ==
    <<"S","e","l","l","s"," ","t","o"," ","C","o","n","s","u","m","e","r","."," ","C","o","n","c","l","u","s","i","o","n",":"," ","[","v","p","n","]">>
\* "I cannot tell."
TxtNoTag ==
    <<"I"," ","c","a","n","n","o","t"," ","t","e","l","l",".">>
\* "": an empty reply
TxtEmpty == <<>>

Texts ==
    { TxtResidential, TxtMicrosoft, TxtSecurity, TxtCloudUpper, TxtVpn,
      TxtScraper, TxtProxy, TxtUnknown, TxtTwoTags, TxtBareTags,
      TxtConsumerVpn, TxtNoTag, TxtEmpty }

\* What client.chat_completion does: it raises (an API error, a timeout), or
\* it returns a response whose message content is a string or None.
OracleOutcomes ==
    { [kind |-> "raise", content |-> NoValue],
      [kind |-> "content", content |-> NoValue] }
    \cup { [kind |-> "content", content |-> Some(t)] : t \in Texts }

\* No call was made.
NoCall == [kind |-> "nocall", content |-> NoValue]

----------------------------------------------------------------------------
\* research_isp_with_llm

\* The literal part of the pattern before the bracket, lower-cased.
ConclusionLiteral ==
    <<"c","o","n","c","l","u","s","i","o","n",":">>

residential_keywords ==
    { <<"r","e","s","i","d","e","n","t","i","a","l">>,
      <<"c","o","n","s","u","m","e","r">>,
      <<"h","o","m","e"," ","u","s","e","r","s">>,
      <<"i","n","t","e","r","n","e","t"," ","s","e","r","v","i","c","e">>,
      <<"m","o","b","i","l","e"," ","p","r","o","v","i","d","e","r">> }

\* Does the literal "Conclusion:" stand at position i, letter case ignored?
LiteralAt(s, i) ==
    /\ i + Len(ConclusionLiteral) - 1 <= Len(s)
    /\ \A k \in 1..Len(ConclusionLiteral) :
          ToLower(s[i + k - 1]) = ConclusionLiteral[k]

\* The first position from p on that holds no white space (Len(s)+1: none).
SkipSpaces(s, p) ==
    CHOOSE q \in p..(Len(s) + 1) :
        /\ q = Len(s) + 1 \/ ~IsSpace(s[q])
        /\ \A k \in p..(q - 1) : IsSpace(s[k])

\* The first position from p on that holds no letter (Len(s)+1: none).
SkipLetters(s, p) ==
    CHOOSE q \in p..(Len(s) + 1) :
        /\ q = Len(s) + 1 \/ ~IsLetter(s[q])
        /\ \A k \in p..(q - 1) : IsLetter(s[k])

\* A match of r"Conclusion:\s*\[([a-z]+)\]" that starts at position i:
\* <<group 1>>, or <<>> when the pattern does not match there.
MatchAt(s, i) ==
    IF ~LiteralAt(s, i) THEN NoValue
    ELSE LET q == SkipSpaces(s, i + Len(ConclusionLiteral))
             r == SkipLetters(s, q + 1)
         IN  IF /\ q <= Len(s)
                /\ s[q] = "["
                /\ r > q + 1
                /\ r <= Len(s)
                /\ s[r] = "]"
             THEN Some(SubSeq(s, q + 1, r - 1))
             ELSE NoValue

\* re.search(pattern, reasoning, re.IGNORECASE): the leftmost match.
re_search(s) ==
    LET starts == { i \in 1..Len(s) : MatchAt(s, i) # NoValue }
    IN  IF starts = {} THEN NoValue
        ELSE MatchAt(s, CHOOSE i \in starts : \A j \in starts : i <= j)

\* conclusion_match.group(1).lower() if conclusion_match else "unknown"
ExtractClassification(reasoning) ==
    LET conclusion_match == re_search(reasoning)
    IN  IF conclusion_match # NoValue
        THEN Str(Lower(conclusion_match[1]))
        ELSE "unknown"

\* The override test without the lower-casing of the reply.
NeedsOverride_CaseSensitive(reasoning, classification) ==
    /\ \E kw \in residential_keywords : Contains(reasoning, kw)
    /\ classification # "residential"

\* The override test: a residential keyword in the lower-cased reply and a
\* classification other than residential.
NeedsOverride(reasoning, classification) ==
    /\ \E kw \in residential_keywords : Contains(Lower(reasoning), kw)
    /\ classification # "residential"

OverrideNote == "\n[OVERRIDE: Corrected to residential based on analysis]"

\* The result of a call that raised, before the except clause sees it.
Raised(msg) ==
    [exc |-> TRUE, extracted |-> "", classification |-> "", reasoning |-> msg]

\* The body of the try block, given what the external call does. A None
\* content makes re.search raise TypeError.
TryBlock(o) ==
    IF o.kind = "raise" THEN Raised("call failed")
    ELSE IF o.content = NoValue THEN Raised("expected string or bytes-like object")
    ELSE LET reasoning == o.content[1]
             extracted == ExtractClassification(reasoning)
         IN  IF NeedsOverride(reasoning, extracted)
             THEN [exc |-> FALSE, extracted |-> extracted,
                   classification |-> "residential",
                   reasoning |-> Str(reasoning) \o OverrideNote]
             ELSE [exc |-> FALSE, extracted |-> extracted,
                   classification |-> extracted,
                   reasoning |-> Str(reasoning)]

\* An except clause that lets the exception go on to the caller.
ExceptClause_Propagate(r) == r

\* except Exception as e: return "", f"Classification Error: {str(e)}"
ExceptClause(r) ==
    IF r.exc
    THEN [exc |-> FALSE, extracted |-> r.extracted, classification |-> "",
          reasoning |-> "Classification Error: " \o r.reasoning]
    ELSE r

\* The guard before the call: `if not isp or not HF_TOKEN`.
MissingParameters(isp, token) == isp = "" \/ ~token

research_isp_with_llm(isp, token, o) ==
    IF MissingParameters(isp, token)
    THEN [exc |-> FALSE, extracted |-> "", classification |-> "",
          reasoning |-> "Missing required parameters"]
    ELSE ExceptClause(TryBlock(o))

\* is_bot_classification without the scraper category.
is_bot_classification_NoScraper(classification) ==
    classification \in {"microsoft", "security", "cloud", "vpn"}

\* is_bot_classification
is_bot_classification(classification) ==
    classification \in {"microsoft", "security", "cloud", "vpn", "scraper"}

----------------------------------------------------------------------------
\* ai_decision

\* The flag test with the isDataCenterASN entry left out of the dictionary.
any_cloudflare_flags_NoAsn(d) ==
    \/ d.isBotUserAgent
    \/ d.isScraperISP
    \/ d.isIPAbuser
    \/ d.isSuspiciousTraffic

\* any(cloudflare_flags.values())
any_cloudflare_flags(d) ==
    \/ d.isBotUserAgent
    \/ d.isScraperISP
    \/ d.isIPAbuser
    \/ d.isSuspiciousTraffic
    \/ d.isDataCenterASN

\* `if data.isp is not None:`, which an empty isp passes.
IspPresent_NotNone(d) == d.isp \in {"", d.isp}

\* `if data.isp:`
IspPresent(d) == d.isp # ""

\* The keywords looked for in the lower-cased user-agent.
bot_indicators ==
    { <<"b","o","t">>,
      <<"c","u","r","l">>,
      <<"p","y","t","h","o","n">>,
      <<"w","g","e","t">>,
      <<"s","c","r","a","p","y">>,
      <<"h","e","a","d","l","e","s","s">>,
      <<"p","h","a","n","t","o","m">>,
      <<"s","e","l","e","n","i","u","m">>,
      <<"s","p","i","d","e","r">>,
      <<"z","g","r","a","b">>,
      <<"n","m","a","p">>,
      <<"m","a","s","s","c","a","n">>,
      <<"a","u","t","o","m","a","t","e","d">> }

MinUALen == 20

\* `data.jsEnabled is False`, which an absent jsEnabled passes.
no_js_OnlyFalse(d) == d.jsEnabled = Some(FALSE)

\* browser_checks
no_js(d) == ~Truthy(d.jsEnabled)
no_cookies(d) == ~Truthy(d.supportsCookies)
bot_ua(d) == \E ind \in bot_indicators : Contains(Lower(d.ua), ind)
short_ua(d) == Len(d.ua) < MinUALen
any_browser_checks(d) == no_js(d) \/ no_cookies(d) \/ bot_ua(d) \/ short_ua(d)

valid_languages ==
    {"en-US", "en-CA", "en-GB", "en", "fr", "es", "de", "fr-CA", "ja-JP"}

\* suspicious_attributes
invalid_resolution(d) == d.screenRes \in {"0x0", "1x1"}
unusual_language(d) == d.lang \notin valid_languages

\* `data.timezone is None`, which the default "" passes.
missing_timezone_IsNone(d) == d.timezone \notin {"", d.timezone}

missing_timezone(d) == d.timezone = ""
any_suspicious_attributes(d) ==
    invalid_resolution(d) \/ unusual_language(d) \/ missing_timezone(d)

VARIABLES
    HF_TOKEN,        \* is the HF_TOKEN environment variable set and non-empty
    body,            \* the JSON body of the request being handled
    data,            \* the validated AICheckRequest
    pc,              \* the handler's position
    outcome,         \* what the external call did for this request
    extracted,       \* classification as extracted, before the override
    classification,  \* classification returned by research_isp_with_llm
    reasoning,       \* reasoning returned by research_isp_with_llm
    verdict,         \* "verdict" of the response, "" before the return
    reason,          \* "reason" of the response
    raised,          \* did an exception leave the handler
    researchCalls,   \* calls of research_isp_with_llm for this request
    externalCalls    \* calls of client.chat_completion for this request

vars ==
    << HF_TOKEN, body, data, pc, outcome, extracted, classification,
       reasoning, verdict, reason, raised, researchCalls, externalCalls >>

Init ==
    /\ HF_TOKEN \in BOOLEAN
    /\ body = EmptyBody
    /\ data = AICheckRequest(EmptyBody)
    /\ pc = "idle"
    /\ outcome = NoCall
    /\ extracted = ""
    /\ classification = ""
    /\ reasoning = ""
    /\ verdict = ""
    /\ reason = ""
    /\ raised = FALSE
    /\ researchCalls = 0
    /\ externalCalls = 0

\* POST /ai-decision: the body is validated into an AICheckRequest.
Receive(b) ==
    /\ pc = "idle"
    /\ body' = b
    /\ data' = AICheckRequest(b)
    /\ pc' = "flags"
    /\ UNCHANGED << HF_TOKEN, outcome, extracted, classification, reasoning,
                    verdict, reason, raised, researchCalls, externalCalls >>

\* 1. Immediate Cloudflare bot flags
CloudflareFlags ==
    /\ pc = "flags"
    /\ IF any_cloudflare_flags(data)
       THEN /\ verdict' = "bot"
            /\ reason' = "Cloudflare security flags triggered"
            /\ pc' = "done"
       ELSE /\ pc' = "isp"
            /\ UNCHANGED << verdict, reason >>
    /\ UNCHANGED << HF_TOKEN, body, data, outcome, extracted, classification,
                    reasoning, raised, researchCalls, externalCalls >>

\* 2. `if data.isp:` is false: the ISP analysis is skipped.
IspSkipped ==
    /\ pc = "isp"
    /\ ~IspPresent(data)
    /\ pc' = "browser"
    /\ UNCHANGED << HF_TOKEN, body, data, outcome, extracted, classification,
                    reasoning, verdict, reason, raised, researchCalls,
                    externalCalls >>

\* 2. Comprehensive ISP analysis: research_isp_with_llm is called, and calls
\* the language model unless a parameter is missing; o is what that call does.
IspAnalysis(o) ==
    /\ pc = "isp"
    /\ IspPresent(data)
    /\ researchCalls' = researchCalls + 1
    /\ LET called == ~MissingParameters(data.isp, HF_TOKEN)
           r == research_isp_with_llm(data.isp, HF_TOKEN, o)
       IN  /\ called \/ o = NoCall
           /\ ~called \/ o \in OracleOutcomes
           /\ outcome' = o
           /\ externalCalls' = IF called THEN externalCalls + 1 ELSE externalCalls
           /\ extracted' = r.extracted
           /\ classification' = r.classification
           /\ reasoning' = r.reasoning
           /\ IF r.exc
              THEN /\ raised' = TRUE
                   /\ pc' = "done"
                   /\ UNCHANGED << verdict, reason >>
              ELSE /\ raised' = FALSE
                   /\ IF r.classification = ""
                      THEN /\ verdict' = "uncertain"
                           /\ reason' = "ISP classification service unavailable"
                           /\ pc' = "done"
                      ELSE IF is_bot_classification(r.classification)
                      THEN /\ verdict' = "bot"
                           /\ reason' = "Classified as " \o r.classification \o " network"
                           /\ pc' = "done"
                      ELSE /\ pc' = "browser"
                           /\ UNCHANGED << verdict, reason >>
    /\ UNCHANGED << HF_TOKEN, body, data >>

\* 3. Browser fingerprint checks
BrowserChecks ==
    /\ pc = "browser"
    /\ IF any_browser_checks(data)
       THEN /\ verdict' = "bot"
            /\ reason' = "Automation characteristics detected"
            /\ pc' = "done"
       ELSE /\ pc' = "attributes"
            /\ UNCHANGED << verdict, reason >>
    /\ UNCHANGED << HF_TOKEN, body, data, outcome, extracted, classification,
                    reasoning, raised, researchCalls, externalCalls >>

\* 4. Suspicious attributes, and 5. Verified human traffic
SuspiciousAttributes ==
    /\ pc = "attributes"
    /\ IF any_suspicious_attributes(data)
       THEN /\ verdict' = "uncertain"
            /\ reason' = "Suspicious client characteristics"
       ELSE /\ verdict' = "human"
            /\ reason' = "All checks passed"
    /\ pc' = "done"
    /\ UNCHANGED << HF_TOKEN, body, data, outcome, extracted, classification,
                    reasoning, raised, researchCalls, externalCalls >>

\* A request arrives with any body.
Request ==
    /\ pc = "idle"
    /\ \E b \in Bodies : Receive(b)

Next ==
    \/ Request
    \/ CloudflareFlags
    \/ IspSkipped
    \/ \E o \in OracleOutcomes \cup {NoCall} : IspAnalysis(o)
    \/ BrowserChecks
    \/ SuspiciousAttributes

Spec == Init /\ [][Next]_vars

----------------------------------------------------------------------------
\* Properties

Verdicts == {"bot", "uncertain", "human"}

\* Is one of the five abuse flags of the posted body true?
AbuseFlagSet(b) ==
    \/ b.isBotUserAgent = Some(TRUE)
    \/ b.isScraperISP = Some(TRUE)
    \/ b.isIPAbuser = Some(TRUE)
    \/ b.isSuspiciousTraffic = Some(TRUE)
    \/ b.isDataCenterASN = Some(TRUE)

\* The reasons the browser checks and the later rules return with.
LaterReasons ==
    { "Automation characteristics detected",
      "Suspicious client characteristics",
      "All checks passed" }

\* C1: for every request and every oracle outcome the handler completes:
\* it can always take its next step, and once it has returned the verdict is
\* one of bot, uncertain, human and no exception has left the handler.
C1_Total ==
    /\ pc \in {"flags", "isp", "browser", "attributes"} => ENABLED Next
    /\ pc = "done" => verdict \in Verdicts /\ ~raised

\* The external call raised and the handler still returned a verdict.
C1_Witness ==
    /\ pc = "done"
    /\ outcome.kind = "raise"
    /\ externalCalls = 1
    /\ verdict = "uncertain"

\* C2: a request that carries honeypotVisited = true gets the verdict bot,
\* whatever its other fields.
C2_HoneypotBot ==
    pc = "done" /\ body.honeypotVisited = Some(TRUE) => verdict = "bot"

\* C3: when one of the five abuse flags is true the verdict is bot whatever
\* the other fields, and the handler returns at the flag rule: it never
\* reaches the ISP analysis and the oracle is not called.
C3_FlagsBot ==
    AbuseFlagSet(body) =>
        /\ pc \in {"flags", "done"}
        /\ researchCalls = 0
        /\ externalCalls = 0
        /\ outcome = NoCall
        /\ pc = "done" =>
              verdict = "bot" /\ reason = "Cloudflare security flags triggered"

\* A flagged request that would pass every other check got the verdict bot.
C3_Witness ==
    /\ pc = "done"
    /\ body.isDataCenterASN = Some(TRUE)
    /\ body.isBotUserAgent = NoValue
    /\ body.isp = Some("Comcast Cable")
    /\ body.ua = Some(ChromeUA)
    /\ body.jsEnabled = Some(TRUE)
    /\ body.supportsCookies = Some(TRUE)
    /\ body.lang = Some("en-US")
    /\ body.timezone = Some("America/New_York")
    /\ body.screenRes = Some("1920x1080")
    /\ verdict = "bot"

\* The categories C4 calls known-unsafe.
C4_ClaimedUnsafe ==
    {"microsoft", "security", "cloud", "vpn", "proxy", "scraper"}

\* C4 as stated: with all abuse flags false and a non-empty isp, a category
\* among microsoft, security, cloud, vpn, proxy, scraper gives the verdict bot.
C4_Original ==
    /\ pc = "done"
    /\ ~AbuseFlagSet(body)
    /\ data.isp # ""
    /\ researchCalls = 1
    /\ classification \in C4_ClaimedUnsafe
    => verdict = "bot"

\* C4 (amended): with all abuse flags false and a non-empty isp, a category
\* among microsoft, security, cloud, vpn, scraper ends the handler at the ISP
\* rule with the verdict bot; the browser, language, resolution and timezone
\* fields are never examined.
C4_UnsafeBot ==
    /\ ~AbuseFlagSet(body)
    /\ data.isp # ""
    /\ researchCalls = 1
    /\ classification \in C4_ClaimedUnsafe \ {"proxy"}
    => /\ pc = "done"
       /\ verdict = "bot"
       /\ reason \notin LaterReasons

\* The oracle said scraper for a request that passes every later check.
C4_Witness ==
    /\ pc = "done"
    /\ classification = "scraper"
    /\ ~AbuseFlagSet(body)
    /\ ~any_browser_checks(data)
    /\ ~any_suspicious_attributes(data)
    /\ verdict = "bot"

\* Does a bracketed keyword, "[" letters "]", start at position i?
BracketedAt(s, i) ==
    /\ s[i] = "["
    /\ SkipLetters(s, i + 1) > i + 1
    /\ SkipLetters(s, i + 1) <= Len(s)
    /\ s[SkipLetters(s, i + 1)] = "]"

BracketedPositions(s) == { i \in 1..Len(s) : BracketedAt(s, i) }

\* The last bracketed keyword of s, lower-cased.
LastBracketed(s) ==
    LET i == CHOOSE p \in BracketedPositions(s) :
                 \A q \in BracketedPositions(s) : q <= p
    IN  Str(Lower(SubSeq(s, i + 1, SkipLetters(s, i + 1) - 1)))

\* C5: the category extracted from a reply that contains bracketed keywords
\* is the last of them.
C5_LastTag ==
    /\ researchCalls = 1
    /\ outcome.kind = "content"
    /\ outcome.content # NoValue
    /\ BracketedPositions(outcome.content[1]) # {}
    => extracted = LastBracketed(outcome.content[1])

\* The oracle's failure modes: the call raises or times out, the body is
\* empty or null, the text has no extractable tag.
FailureOutcomes ==
    { [kind |-> "raise", content |-> NoValue],
      [kind |-> "content", content |-> NoValue],
      [kind |-> "content", content |-> Some(TxtEmpty)],
      [kind |-> "content", content |-> Some(TxtNoTag)] }

\* C6: every failure mode of the oracle yields the same category: the
\* category returned after one failure is the one any other failure gives.
C6_SameFallback ==
    /\ externalCalls = 1
    /\ outcome \in FailureOutcomes
    => /\ ~raised
       /\ \A o \in FailureOutcomes :
             research_isp_with_llm(data.isp, HF_TOKEN, o).classification
                 = classification

\* The request of C7: the fields it does not list are left out.
C7_Body ==
    [ ua |-> Some(ChromeUA), supportsCookies |-> Some(TRUE),
      jsEnabled |-> Some(TRUE), screenRes |-> Some("1920x1080"),
      lang |-> Some("en-US"), timezone |-> NoValue,
      isp |-> Some("Comcast Cable"), isBotUserAgent |-> NoValue,
      isScraperISP |-> NoValue, isIPAbuser |-> NoValue,
      isSuspiciousTraffic |-> NoValue, isDataCenterASN |-> NoValue,
      honeypotVisited |-> NoValue ]

\* C7 as stated: that request, with the oracle returning residential, gets
\* the verdict human.
C7_Original ==
    /\ pc = "done"
    /\ body = C7_Body
    /\ classification = "residential"
    => verdict = "human"

\* C7 (amended): that request, with the oracle returning residential, gets
\* the verdict uncertain, its timezone being empty; the same request with a
\* timezone gets the verdict human.
C7_Scenario ==
    /\ pc = "done"
    /\ classification = "residential"
    => /\ body = C7_Body =>
             /\ verdict = "uncertain"
             /\ reason = "Suspicious client characteristics"
       /\ body = [C7_Body EXCEPT !.timezone = Some("America/New_York")] =>
             /\ verdict = "human"
             /\ reason = "All checks passed"

\* The request of C7 was answered, the oracle having returned residential.
C7_Witness ==
    /\ pc = "done"
    /\ body = C7_Body
    /\ outcome = [kind |-> "content", content |-> Some(TxtResidential)]
    /\ classification = "residential"
    /\ verdict = "uncertain"

\* C8: research_isp_with_llm and the external call are never made for a
\* request with an empty isp, and are made at most once for any request; with
\* an empty isp the handler steps from the ISP rule to the browser checks.
C8_OracleCalls ==
    /\ [](/\ data.isp = "" =>
                researchCalls = 0 /\ externalCalls = 0 /\ outcome = NoCall
          /\ researchCalls <= 1
          /\ externalCalls <= researchCalls)
    /\ [][pc = "isp" /\ data.isp = "" => pc' = "browser"]_vars

\* A request without isp passed every rule and no call was made.
C8_Witness ==
    /\ pc = "done"
    /\ body.isp = NoValue
    /\ verdict = "human"
    /\ researchCalls = 0

\* C9: the verdict human is returned only when no earlier rule matched.
C9_HumanOnly ==
    verdict = "human" =>
        /\ pc = "done"
        /\ ~AbuseFlagSet(body)
        /\ \/ data.isp = "" /\ researchCalls = 0
           \/ /\ researchCalls = 1
              /\ classification # ""
              /\ classification \notin
                    {"microsoft", "security", "cloud", "vpn", "scraper"}
        /\ body.jsEnabled = Some(TRUE)
        /\ body.supportsCookies = Some(TRUE)
        /\ Len(data.ua) >= 20
        /\ \A ind \in bot_indicators : ~Contains(Lower(data.ua), ind)
        /\ data.screenRes \notin {"0x0", "1x1"}
        /\ data.lang \in valid_languages
        /\ data.timezone # ""

\* A request with an isp the oracle did not call unsafe was judged human.
C9_Witness ==
    /\ verdict = "human"
    /\ data.isp # ""
    /\ classification = "unknown"
    /\ body.ua = Some(UA20)

\* Does the reply the oracle returned contain a residential keyword?
ResidentialReply ==
    /\ researchCalls = 1
    /\ outcome.kind = "content"
    /\ outcome.content # NoValue
    /\ \E kw \in residential_keywords :
          Contains(Lower(outcome.content[1]), kw)

\* C10: a reply that contains a residential keyword gives the category
\* residential whatever tag it concludes with, so the handler does not return
\* at the ISP rule and goes on to the browser checks.
C10_ResidentialOverride ==
    ResidentialReply =>
        /\ classification = "residential"
        /\ pc \in {"browser", "attributes", "done"}
        /\ pc = "done" => reason \in LaterReasons

\* A reply concluding with [vpn] was overridden and the request judged human.
C10_Witness ==
    /\ ResidentialReply
    /\ extracted = "vpn"
    /\ classification = "residential"
    /\ pc = "done"
    /\ verdict = "human"

====
